---- MODULE Spec2Model ----
(***************************************************************************)
(* In-app navigation and config.js bootstrapping of                        *)
(* react/features/app/actions.js: appNavigate resolves a location, loads   *)
(* the deployment's config.js (falling back to the copy kept in            *)
(* localStorage), and dispatches the outcome into the redux store.         *)
(***************************************************************************)
EXTENDS Integers, Sequences, FiniteSets, TLC

(***************************************************************************)
(* Bounds of the model.                                                    *)
(***************************************************************************)
\* Number of appNavigate invocations that may overlap.
NumAttempts == 2
\* Number of distinct errors the config download may reject with.
NumErrors == 2

Attempts == 1..NumAttempts

(***************************************************************************)
(* JavaScript values. A string property that is undefined (or '') is the   *)
(* empty string: the source only ever tests such properties for falsiness. *)
(***************************************************************************)
Undefined == [type |-> "undefined"]
Null == [type |-> "null"]
Obj(id, props) == [type |-> "object", id |-> id, props |-> props]
\* What loadConfig rejects with: an Error, which is truthy.
Err(i) == [type |-> "error", code |-> i]
Errors == {Err(i) : i \in 1..NumErrors}

\* ToBoolean of a value: objects and Error instances are truthy.
Truthy(v) == v.type \in {"object", "error"}

\* a === b for two values: objects are compared by identity.
StrictEquals(a, b) ==
    IF a.type = "object" /\ b.type = "object" THEN a.id = b.id ELSE a = b

\* Deep equality of two values: objects are compared by their properties.
DeepEqual(a, b) ==
    IF a.type = "object" /\ b.type = "object" THEN a.props = b.props ELSE a = b

(***************************************************************************)
(* Configuration documents and profiles: mappings from property names to   *)
(* values. A property of config.js may be a function (getroom).            *)
(***************************************************************************)
PropertyNames == {"startWithAudioMuted", "startWithVideoMuted"}
PropertyValues == {"true", "false"}
FunctionValue == "function"

\* Every mapping over the bounded property names (the inputs of the merge).
PlainDocs == UNION {[S -> PropertyValues] : S \in SUBSET PropertyNames}
AllDocs ==
    PlainDocs \cup
        {[k \in DOMAIN d \cup {"getroom"} |->
            IF k = "getroom" THEN FunctionValue ELSE d[k]] : d \in PlainDocs}

\* The documents a deployment serves in the navigation model.
FetchedDocs ==
    {[startWithAudioMuted |-> "true"],
     [startWithAudioMuted |-> "false", getroom |-> FunctionValue]}

\* The profile getProfile returns in the navigation model.
UserProfile == [startWithAudioMuted |-> "false", displayName |-> "Ann"]

(***************************************************************************)
(* Items of window.localStorage. getItem returns null for a missing key    *)
(* (NoItem); a stored item is a string: the JSON text of an object, the    *)
(* JSON text null, the empty string, or text that is no JSON at all.       *)
(***************************************************************************)
NoItem == [text |-> "absent"]
EmptyItem == [text |-> "empty"]
NullItem == [text |-> "null"]
CorruptItem == [text |-> "corrupt"]
JsonItem(props) == [text |-> "json", props |-> props]

\* ToBoolean of what getItem returned: null and '' are falsy.
ItemTruthy(item) == item.text \notin {"absent", "empty"}

\* JSON.stringify of an object: function-valued properties are omitted.
JSONstringify(config) ==
    JsonItem([k \in {j \in DOMAIN config.props :
                        config.props[j] # FunctionValue} |-> config.props[k]])

\* JSON.parse throws a SyntaxError on text that is no JSON.
JSONparseThrows(item) == item.text \notin {"json", "null"}

\* JSON.parse of a JSON text: a fresh object, or null.
JSONparse(item) ==
    IF item.text = "json" THEN Obj("parsed", item.props) ELSE Null

(***************************************************************************)
(* Locations, as parseURIString produces them.                             *)
(***************************************************************************)
NoLocation == [undefined |-> TRUE]

Location(protocol, authority, contextRoot, room, hashParams) ==
    [protocol |-> protocol, host |-> authority.host,
     hostname |-> authority.hostname, port |-> authority.port,
     contextRoot |-> contextRoot, room |-> room, hashParams |-> hashParams]

NoAuthority == [host |-> "", hostname |-> "", port |-> ""]
MeetAuthority ==
    [host |-> "meet.example.com", hostname |-> "meet.example.com", port |-> ""]
BetaAuthority ==
    [host |-> "beta.example.org:8443", hostname |-> "beta.example.org",
     port |-> "8443"]
Authorities == {MeetAuthority, BetaAuthority}

Protocols == {"", "https:", "HTTP:", "org.jitsi.meet:"}
ContextRoots == {"", "/ctx/"}
Rooms == {"", "Test"}

\* Every parsed location over the bounded parts (the inputs of the
\* normalisation), and the locations _getDefaultURL may parse to.
AllLocations ==
    {Location(p, a, c, r, <<>>) :
        p \in Protocols, a \in Authorities \cup {NoAuthority},
        c \in ContextRoots, r \in Rooms}
DefaultLocations ==
    {Location("https:", MeetAuthority, "", "", <<>>),
     Location("", MeetAuthority, "", "", <<>>),
     Location("http:", BetaAuthority, "/ctx/", "", <<>>)}

\* The URIs navigated to in the navigation model: none at all, a mere room
\* name, an app-specific scheme with a hash override, and a room-less
\* deployment with a context root.
NavigatedLocations ==
    {NoLocation,
     Location("", NoAuthority, "", "Test", <<>>),
     Location("org.jitsi.meet:", MeetAuthority, "/", "Other",
              [startWithVideoMuted |-> "false"]),
     Location("HTTP:", BetaAuthority, "/ctx/", "", <<>>)}

\* String.prototype.toLowerCase on the strings of the model.
toLowerCase(s) ==
    CASE s = "HTTP:" -> "http:"
      [] s = "Test" -> "test"
      [] s = "Other" -> "other"
      [] OTHER -> s

(***************************************************************************)
(* The pure parts of actions.js.                                           *)
(***************************************************************************)
\* The resolution with the default of the protocol applied to the locations
\* given only, not to the default location of the app.
_appNavigateToOptionalLocation_noDefaultProtocol(location, defaultLocation) ==
    IF location = NoLocation
    THEN defaultLocation
    ELSE IF location.host = ""
    THEN [location EXCEPT !.host = defaultLocation.host,
                          !.hostname = defaultLocation.hostname,
                          !.port = defaultLocation.port,
                          !.protocol = defaultLocation.protocol]
    ELSE location

\* _appNavigateToOptionalLocation: the location handed on to
\* _appNavigateToMandatoryLocation for a parsed location (or none) and the
\* parsed default URL of the app.
_appNavigateToOptionalLocation(location, defaultLocation) ==
    LET hosted ==
            IF location = NoLocation \/ location.host = ""
            THEN IF location # NoLocation
                 THEN [location EXCEPT !.host = defaultLocation.host,
                                       !.hostname = defaultLocation.hostname,
                                       !.port = defaultLocation.port,
                                       !.protocol = defaultLocation.protocol]
                 ELSE defaultLocation
            ELSE location
    IN  IF hosted.protocol = ""
        THEN [hosted EXCEPT !.protocol = "https:"]
        ELSE hosted

\* The test of _loadConfig with the room where its negation belongs.
_loadConfigSkipped_invertedRoom(location, appDefined) ==
    location.room # "" /\ ~appDefined

\* _loadConfig returns Promise.resolve() without downloading anything.
_loadConfigSkipped(location, appDefined) ==
    location.room = "" /\ ~appDefined

\* The protocol of the location, lowercased, whatever its scheme.
fetchProtocol_keepsScheme(location) == toLowerCase(location.protocol)

\* The protocol _loadConfig downloads with.
fetchProtocol(location) ==
    LET protocol == toLowerCase(location.protocol)
    IN  IF protocol # "http:" /\ protocol # "https:" THEN "https:" ELSE protocol

baseURL(location) ==
    fetchProtocol(location) \o "//" \o location.host
        \o (IF location.contextRoot = "" THEN "/" ELSE location.contextRoot)

url(location) ==
    baseURL(location) \o "config.js"
        \o (IF location.room # ""
            THEN "?room=" \o toLowerCase(location.room)
            ELSE "")

\* The key made of the URL config.js is downloaded from, room included.
key_withRoom(location) == "config.js/" \o url(location)

\* The key made of the protocol of the location as it was given.
key_ofGivenProtocol(location) ==
    "config.js/" \o location.protocol \o "//" \o location.host
        \o (IF location.contextRoot = "" THEN "/" ELSE location.contextRoot)

\* The localStorage key of the deployment of a location.
key(location) == "config.js/" \o baseURL(location)

\* The merge with the operands of the spread the other way round.
_mergeConfigWithProfile_configWins(config, profile) ==
    IF ~Truthy(config)
    THEN Undefined
    ELSE Obj("merged",
             [k \in DOMAIN config.props \cup DOMAIN profile |->
                 IF k \in DOMAIN config.props
                 THEN config.props[k]
                 ELSE profile[k]])

\* _mergeConfigWithProfile(config, profile): undefined for a falsy config,
\* else a new object with the properties of config overwritten by profile.
_mergeConfigWithProfile(config, profile) ==
    IF ~Truthy(config)
    THEN Undefined
    ELSE Obj("merged",
             [k \in DOMAIN config.props \cup DOMAIN profile |->
                 IF k \in DOMAIN profile THEN profile[k] ELSE config.props[k]])

\* setConfigFromURLParams(config, ..., location): the overrides of the hash
\* of the location are written into config, in place.
setConfigFromURLParams(config, location) ==
    [config EXCEPT !.props =
        [k \in DOMAIN config.props \cup DOMAIN location.hashParams |->
            IF k \in DOMAIN location.hashParams
            THEN location.hashParams[k]
            ELSE config.props[k]]]

\* Every key _loadConfig may use, and one key of another feature.
StorageKeys ==
    {key(_appNavigateToOptionalLocation(l, d)) :
        l \in NavigatedLocations, d \in DefaultLocations}
    \cup {"features/base/profile"}

(***************************************************************************)
(* State.                                                                  *)
(***************************************************************************)
VARIABLES
    appDefined,       \* typeof APP !== 'undefined'
    app,              \* parseURIString(app._getDefaultURL())
    windowConfig,     \* window.config
    profile,          \* getProfile(getState())
    storageAvailable, \* reading window.localStorage does not throw
    cache,            \* window.localStorage: item per key
    store,            \* redux state: what was last dispatched, and by whom
    pc,               \* per attempt: where its promise chain stands
    request,          \* per attempt: the parsed URI appNavigate was given
    newLocation,      \* per attempt: newLocation of the closure
    fetches,          \* per attempt: the URLs loadConfig was called with
    download,         \* per attempt: what loadConfig(url) settled with, and
                      \*   the item under the key of the attempt when it
                      \*   was rejected
    storageOps,       \* per attempt: the localStorage calls it made
    loadResult,       \* per attempt: what _loadConfig settled with
    config,           \* per attempt: config of loadConfigSettled
    profileRead,      \* per attempt: profile of loadConfigSettled
    log,              \* per attempt: the actions it dispatched, in order
    promise           \* per attempt: the promise appNavigate returned

environment ==
    <<appDefined, app, windowConfig, profile, storageAvailable>>
closures ==
    <<request, newLocation, fetches, download, storageOps, loadResult,
      config, profileRead, log, promise>>
vars == <<environment, cache, store, pc, closures>>

Pending == [status |-> "pending"]
Fulfilled(value) == [status |-> "fulfilled", value |-> value]
Rejected(reason) == [status |-> "rejected", value |-> reason]

Settled(settlement, item) ==
    [status |-> settlement.status, value |-> settlement.value, item |-> item]

Action(creator, args) == [creator |-> creator, args |-> args]
Committed(n, value) == [by |-> n, value |-> value]

\* The localStorage contents a run may start from: only the deployment of
\* meet.example.com has been visited, and its item may have been damaged.
StartItems ==
    {NoItem, EmptyItem, NullItem, CorruptItem,
     JsonItem([startWithVideoMuted |-> "true"])}

MeetKey == key(Location("https:", MeetAuthority, "", "", <<>>))

\* No appNavigate has been called yet.
NothingStarted ==
    /\ store = [locationURL |-> Committed(0, Undefined),
                config |-> Committed(0, Undefined),
                room |-> Committed(0, ""),
                error |-> Committed(0, Undefined)]
    /\ pc = [n \in Attempts |-> "idle"]
    /\ request = [n \in Attempts |-> NoLocation]
    /\ newLocation = [n \in Attempts |-> NoLocation]
    /\ fetches = [n \in Attempts |-> <<>>]
    /\ download = [n \in Attempts |-> Pending]
    /\ storageOps = [n \in Attempts |-> <<>>]
    /\ loadResult = [n \in Attempts |-> Pending]
    /\ config = [n \in Attempts |-> Undefined]
    /\ profileRead = [n \in Attempts |-> <<>>]
    /\ log = [n \in Attempts |-> <<>>]
    /\ promise = [n \in Attempts |-> Pending]

\* The two applications: the Web app defines APP and has loaded config.js
\* with its page, so that window.config is set; the mobile app has neither.
Platform ==
    /\ appDefined \in BOOLEAN
    /\ windowConfig =
          IF appDefined
          THEN Obj("window", [startWithAudioMuted |-> "true"])
          ELSE Undefined

\* localStorage cannot be read, or it holds at most an item of the
\* deployment of meet.example.com.
Storage(items) ==
    /\ storageAvailable \in BOOLEAN
    /\ \E item \in items :
          /\ ~storageAvailable => item = NoItem
          /\ cache = [k \in StorageKeys |->
                        IF k = MeetKey THEN item ELSE NoItem]

Init ==
    /\ Platform
    /\ app = Location("https:", MeetAuthority, "", "", <<>>)
    /\ profile = UserProfile
    /\ Storage(StartItems)
    /\ NothingStarted

(***************************************************************************)
(* appNavigate(uri): the location is resolved, configWillLoad is           *)
(* dispatched and _loadConfig starts the download, or skips it.            *)
(***************************************************************************)
\* appNavigate abandoning the attempts that are still in flight.
appNavigate_cancelsInFlight(n, location) ==
    LET resolved == _appNavigateToOptionalLocation(location, app)
    IN  /\ pc[n] = "idle"
        /\ n > 1 => pc[n - 1] # "idle"
        /\ request' = [request EXCEPT ![n] = location]
        /\ newLocation' = [newLocation EXCEPT ![n] = resolved]
        /\ log' = [log EXCEPT ![n] = <<Action("configWillLoad", <<resolved>>)>>]
        /\ IF _loadConfigSkipped(resolved, appDefined)
           THEN /\ pc' = [m \in Attempts |->
                            IF m = n THEN "loaded"
                            ELSE IF pc[m] \in {"done", "errored", "idle"}
                            THEN pc[m] ELSE "cancelled"]
                /\ loadResult' = [loadResult EXCEPT ![n] = Fulfilled(Undefined)]
                /\ UNCHANGED fetches
           ELSE /\ pc' = [m \in Attempts |->
                            IF m = n THEN "fetching"
                            ELSE IF pc[m] \in {"done", "errored", "idle"}
                            THEN pc[m] ELSE "cancelled"]
                /\ fetches' = [fetches EXCEPT ![n] = Append(@, url(resolved))]
                /\ UNCHANGED loadResult
        /\ UNCHANGED <<environment, cache, store, download, storageOps,
                       config, profileRead, promise>>

appNavigate(n, location) ==
    LET resolved == _appNavigateToOptionalLocation(location, app)
    IN  /\ pc[n] = "idle"
        /\ n > 1 => pc[n - 1] # "idle"
        /\ request' = [request EXCEPT ![n] = location]
        /\ newLocation' = [newLocation EXCEPT ![n] = resolved]
        /\ log' = [log EXCEPT ![n] = <<Action("configWillLoad", <<resolved>>)>>]
        /\ IF _loadConfigSkipped(resolved, appDefined)
           THEN /\ pc' = [pc EXCEPT ![n] = "loaded"]
                /\ loadResult' = [loadResult EXCEPT ![n] = Fulfilled(Undefined)]
                /\ UNCHANGED fetches
           ELSE /\ pc' = [pc EXCEPT ![n] = "fetching"]
                /\ fetches' = [fetches EXCEPT ![n] = Append(@, url(resolved))]
                /\ UNCHANGED loadResult
        /\ UNCHANGED <<environment, cache, store, download, storageOps,
                       config, profileRead, promise>>

(***************************************************************************)
(* _loadConfig, onFulfilled: the downloaded config is stored in            *)
(* localStorage unless it is window.config itself; whatever the attempt    *)
(* to store it throws is ignored.                                          *)
(***************************************************************************)
StorageOp(op, k, threw) == [op |-> op, key |-> k, threw |-> threw]

\* onFulfilled with the comparison to window.config inverted.
onFulfilled_invertedIdentity(downloaded, k, quotaExceeded) ==
    IF windowConfig.type # "undefined" /\ StrictEquals(windowConfig, downloaded)
    THEN IF ~storageAvailable
         THEN [cache |-> cache,
               ops |-> <<StorageOp("localStorage", "", TRUE)>>,
               result |-> Fulfilled(downloaded)]
         ELSE IF quotaExceeded
         THEN [cache |-> cache,
               ops |-> <<StorageOp("setItem", k, TRUE)>>,
               result |-> Fulfilled(downloaded)]
         ELSE [cache |-> [cache EXCEPT ![k] = JSONstringify(downloaded)],
               ops |-> <<StorageOp("setItem", k, FALSE)>>,
               result |-> Fulfilled(downloaded)]
    ELSE [cache |-> cache, ops |-> <<>>, result |-> Fulfilled(downloaded)]

\* onFulfilled without the try around the write.
onFulfilled_fatalWrite(downloaded, k, quotaExceeded) ==
    IF windowConfig.type = "undefined" \/ ~StrictEquals(windowConfig, downloaded)
    THEN IF ~storageAvailable
         THEN [cache |-> cache,
               ops |-> <<StorageOp("localStorage", "", TRUE)>>,
               result |-> Rejected(Err(1))]
         ELSE IF quotaExceeded
         THEN [cache |-> cache,
               ops |-> <<StorageOp("setItem", k, TRUE)>>,
               result |-> Rejected(Err(1))]
         ELSE [cache |-> [cache EXCEPT ![k] = JSONstringify(downloaded)],
               ops |-> <<StorageOp("setItem", k, FALSE)>>,
               result |-> Fulfilled(downloaded)]
    ELSE [cache |-> cache, ops |-> <<>>, result |-> Fulfilled(downloaded)]

onFulfilled(downloaded, k, quotaExceeded) ==
    IF windowConfig.type = "undefined" \/ ~StrictEquals(windowConfig, downloaded)
    THEN IF ~storageAvailable
         THEN [cache |-> cache,
               ops |-> <<StorageOp("localStorage", "", TRUE)>>,
               result |-> Fulfilled(downloaded)]
         ELSE IF quotaExceeded
         THEN [cache |-> cache,
               ops |-> <<StorageOp("setItem", k, TRUE)>>,
               result |-> Fulfilled(downloaded)]
         ELSE [cache |-> [cache EXCEPT ![k] = JSONstringify(downloaded)],
               ops |-> <<StorageOp("setItem", k, FALSE)>>,
               result |-> Fulfilled(downloaded)]
    ELSE [cache |-> cache, ops |-> <<>>, result |-> Fulfilled(downloaded)]

\* What loadConfig may resolve with: a document of the deployment, or the
\* window.config object itself.
Downloads(documents) ==
    {Obj("downloaded", d) : d \in documents}
        \cup (IF windowConfig.type = "object" THEN {windowConfig} ELSE {})

FetchFulfilled(n, downloaded, quotaExceeded) ==
    LET out == onFulfilled(downloaded, key(newLocation[n]), quotaExceeded)
    IN  /\ pc[n] = "fetching"
        /\ download' = [download EXCEPT
                          ![n] = Settled(Fulfilled(downloaded), NoItem)]
        /\ cache' = out.cache
        /\ storageOps' = [storageOps EXCEPT ![n] = @ \o out.ops]
        /\ loadResult' = [loadResult EXCEPT ![n] = out.result]
        /\ pc' = [pc EXCEPT ![n] = "loaded"]
        /\ UNCHANGED <<environment, store, request, newLocation, fetches,
                       config, profileRead, log, promise>>

(***************************************************************************)
(* _loadConfig, onRejected: the last config stored for the deployment is   *)
(* used if it can be read and parsed; an item that cannot be parsed is     *)
(* removed; otherwise the error of the download is thrown again.           *)
(***************************************************************************)
\* onRejected without its last statement, throw error.
onRejected_withoutRethrow(error, k) ==
    IF ~storageAvailable
    THEN [cache |-> cache,
          ops |-> <<StorageOp("localStorage", "", TRUE)>>,
          result |-> Fulfilled(Undefined)]
    ELSE IF ItemTruthy(cache[k])
    THEN IF JSONparseThrows(cache[k])
         THEN [cache |-> [cache EXCEPT ![k] = NoItem],
               ops |-> <<StorageOp("getItem", k, FALSE),
                         StorageOp("removeItem", k, FALSE)>>,
               result |-> Fulfilled(Undefined)]
         ELSE [cache |-> cache,
               ops |-> <<StorageOp("getItem", k, FALSE)>>,
               result |-> Fulfilled(JSONparse(cache[k]))]
    ELSE [cache |-> cache,
          ops |-> <<StorageOp("getItem", k, FALSE)>>,
          result |-> Fulfilled(Undefined)]

\* onRejected that throws the error again whatever localStorage holds.
onRejected_withoutFallback(error, k) ==
    IF ~storageAvailable
    THEN [cache |-> cache,
          ops |-> <<StorageOp("localStorage", "", TRUE)>>,
          result |-> Rejected(error)]
    ELSE IF ItemTruthy(cache[k]) /\ JSONparseThrows(cache[k])
    THEN [cache |-> [cache EXCEPT ![k] = NoItem],
          ops |-> <<StorageOp("getItem", k, FALSE),
                    StorageOp("removeItem", k, FALSE)>>,
          result |-> Rejected(error)]
    ELSE [cache |-> cache,
          ops |-> <<StorageOp("getItem", k, FALSE)>>,
          result |-> Rejected(error)]

\* onRejected with an empty catch block.
onRejected_keepsCorruptItem(error, k) ==
    IF ~storageAvailable
    THEN [cache |-> cache,
          ops |-> <<StorageOp("localStorage", "", TRUE)>>,
          result |-> Rejected(error)]
    ELSE IF ItemTruthy(cache[k]) /\ ~JSONparseThrows(cache[k])
    THEN [cache |-> cache,
          ops |-> <<StorageOp("getItem", k, FALSE)>>,
          result |-> Fulfilled(JSONparse(cache[k]))]
    ELSE [cache |-> cache,
          ops |-> <<StorageOp("getItem", k, FALSE)>>,
          result |-> Rejected(error)]

\* onRejected removing the item it has just parsed and returned.
onRejected_removesParsedItem(error, k) ==
    IF ~storageAvailable
    THEN [cache |-> cache,
          ops |-> <<StorageOp("localStorage", "", TRUE)>>,
          result |-> Rejected(error)]
    ELSE IF ItemTruthy(cache[k])
    THEN IF JSONparseThrows(cache[k])
         THEN [cache |-> [cache EXCEPT ![k] = NoItem],
               ops |-> <<StorageOp("getItem", k, FALSE),
                         StorageOp("removeItem", k, FALSE)>>,
               result |-> Rejected(error)]
         ELSE [cache |-> [cache EXCEPT ![k] = NoItem],
               ops |-> <<StorageOp("getItem", k, FALSE),
                         StorageOp("removeItem", k, FALSE)>>,
               result |-> Fulfilled(JSONparse(cache[k]))]
    ELSE [cache |-> cache,
          ops |-> <<StorageOp("getItem", k, FALSE)>>,
          result |-> Rejected(error)]

onRejected(error, k) ==
    IF ~storageAvailable
    THEN [cache |-> cache,
          ops |-> <<StorageOp("localStorage", "", TRUE)>>,
          result |-> Rejected(error)]
    ELSE IF ItemTruthy(cache[k])
    THEN IF JSONparseThrows(cache[k])
         THEN [cache |-> [cache EXCEPT ![k] = NoItem],
               ops |-> <<StorageOp("getItem", k, FALSE),
                         StorageOp("removeItem", k, FALSE)>>,
               result |-> Rejected(error)]
         ELSE [cache |-> cache,
               ops |-> <<StorageOp("getItem", k, FALSE)>>,
               result |-> Fulfilled(JSONparse(cache[k]))]
    ELSE [cache |-> cache,
          ops |-> <<StorageOp("getItem", k, FALSE)>>,
          result |-> Rejected(error)]

FetchRejected(n, error) ==
    LET out == onRejected(error, key(newLocation[n]))
    IN  /\ pc[n] = "fetching"
        /\ download' = [download EXCEPT
                          ![n] = Settled(Rejected(error), cache[key(newLocation[n])])]
        /\ cache' = out.cache
        /\ storageOps' = [storageOps EXCEPT ![n] = @ \o out.ops]
        /\ loadResult' = [loadResult EXCEPT ![n] = out.result]
        /\ pc' = [pc EXCEPT ![n] = "loaded"]
        /\ UNCHANGED <<environment, store, request, newLocation, fetches,
                       config, profileRead, log, promise>>

(***************************************************************************)
(* loadConfigSettled(error, config), up to the promise of setLocationURL:  *)
(* the overrides of the URL are applied to a config loaded without error,  *)
(* setLocationURL is dispatched and, without an error, the profile is read.*)
(***************************************************************************)
\* The object a reference denotes now: setConfigFromURLParams writes into
\* its argument, so every reference to window.config sees what was written.
Deref(value) ==
    IF value.type = "object" /\ value.id = "window" THEN windowConfig ELSE value

settledError(result) ==
    IF result.status = "rejected" THEN result.value ELSE Undefined

settledConfig(result) ==
    IF result.status = "fulfilled" THEN result.value ELSE Undefined

\* loadConfigSettled without its first statement.
overriddenConfig_skipped(error, loaded, location) == loaded

\* The config after the first statement of loadConfigSettled.
overriddenConfig(error, loaded, location) ==
    IF Truthy(loaded) /\ ~Truthy(error)
    THEN setConfigFromURLParams(loaded, location)
    ELSE loaded

\* loadConfigSettled dispatching setLocationURL on the way to setConfig only.
loadConfigSettled_locationOnSuccess(n) ==
    LET error == settledError(loadResult[n])
        loaded == Deref(settledConfig(loadResult[n]))
        overridden == overriddenConfig(error, loaded, newLocation[n])
    IN  /\ pc[n] = "loaded"
        /\ config' = [config EXCEPT ![n] = overridden]
        /\ windowConfig' =
              IF StrictEquals(windowConfig, loaded) /\ Truthy(loaded)
              THEN overridden
              ELSE windowConfig
        /\ IF Truthy(error)
           THEN UNCHANGED <<log, store>>
           ELSE /\ log' = [log EXCEPT
                             ![n] = Append(@, Action("setLocationURL",
                                                     <<newLocation[n]>>))]
                /\ store' = [store EXCEPT
                               !.locationURL = Committed(n, newLocation[n])]
        /\ profileRead' =
              [profileRead EXCEPT
                  ![n] = IF Truthy(error) THEN @ ELSE profile]
        /\ pc' = [pc EXCEPT ![n] = "located"]
        /\ UNCHANGED <<appDefined, app, profile, storageAvailable, cache,
                       request, newLocation, fetches, download, storageOps,
                       loadResult, promise>>

\* loadConfigSettled called without waiting for _loadConfig to settle.
loadConfigSettled_beforeSettlement(n) ==
    LET error == settledError(loadResult[n])
        loaded == Deref(settledConfig(loadResult[n]))
        overridden == overriddenConfig(error, loaded, newLocation[n])
    IN  /\ pc[n] \in {"fetching", "loaded"}
        /\ config' = [config EXCEPT ![n] = overridden]
        /\ windowConfig' =
              IF StrictEquals(windowConfig, loaded) /\ Truthy(loaded)
              THEN overridden
              ELSE windowConfig
        /\ log' = [log EXCEPT
                     ![n] = Append(@, Action("setLocationURL",
                                             <<newLocation[n]>>))]
        /\ store' = [store EXCEPT
                       !.locationURL = Committed(n, newLocation[n])]
        /\ profileRead' =
              [profileRead EXCEPT
                  ![n] = IF Truthy(error) THEN @ ELSE profile]
        /\ pc' = [pc EXCEPT ![n] = "located"]
        /\ UNCHANGED <<appDefined, app, profile, storageAvailable, cache,
                       request, newLocation, fetches, download, storageOps,
                       loadResult, promise>>

loadConfigSettled(n) ==
    LET error == settledError(loadResult[n])
        loaded == Deref(settledConfig(loadResult[n]))
        overridden == overriddenConfig(error, loaded, newLocation[n])
    IN  /\ pc[n] = "loaded"
        /\ config' = [config EXCEPT ![n] = overridden]
        /\ windowConfig' =
              IF StrictEquals(windowConfig, loaded) /\ Truthy(loaded)
              THEN overridden
              ELSE windowConfig
        /\ log' = [log EXCEPT
                     ![n] = Append(@, Action("setLocationURL",
                                             <<newLocation[n]>>))]
        /\ store' = [store EXCEPT
                       !.locationURL = Committed(n, newLocation[n])]
        /\ profileRead' =
              [profileRead EXCEPT
                  ![n] = IF Truthy(error) THEN @ ELSE profile]
        /\ pc' = [pc EXCEPT ![n] = "located"]
        /\ UNCHANGED <<appDefined, app, profile, storageAvailable, cache,
                       request, newLocation, fetches, download, storageOps,
                       loadResult, promise>>

(***************************************************************************)
(* loadConfigSettled, once the promise of setLocationURL has resolved and  *)
(* there is an error: loadConfigError is dispatched and the error thrown,  *)
(* which rejects the promise of appNavigate.                               *)
(***************************************************************************)
reportLoadConfigError(n) ==
    LET error == settledError(loadResult[n])
    IN  /\ pc[n] = "located"
        /\ Truthy(error)
        /\ log' = [log EXCEPT
                     ![n] = Append(@, Action("loadConfigError",
                                             <<error, newLocation[n]>>))]
        /\ store' = [store EXCEPT !.error = Committed(n, error)]
        /\ promise' = [promise EXCEPT ![n] = Rejected(error)]
        /\ pc' = [pc EXCEPT ![n] = "errored"]
        /\ UNCHANGED <<environment, cache, request, newLocation, fetches,
                       download, storageOps, loadResult, config, profileRead>>

(***************************************************************************)
(* loadConfigSettled, once the promise of setLocationURL has resolved and  *)
(* there is no error: setConfig is dispatched with the merge of the config *)
(* and the profile.                                                        *)
(***************************************************************************)
\* The callback of the success path registered whether or not there is an
\* error.
commitConfig_regardlessOfError(n) ==
    LET merged == _mergeConfigWithProfile(Deref(config[n]), profileRead[n])
    IN  /\ pc[n] = "located"
        /\ log' = [log EXCEPT ![n] = Append(@, Action("setConfig", <<merged>>))]
        /\ store' = [store EXCEPT !.config = Committed(n, merged)]
        /\ pc' = [pc EXCEPT ![n] = "committed"]
        /\ UNCHANGED <<environment, cache, request, newLocation, fetches,
                       download, storageOps, loadResult, config, profileRead,
                       promise>>

commitConfig(n) ==
    LET error == settledError(loadResult[n])
        merged == _mergeConfigWithProfile(Deref(config[n]), profileRead[n])
    IN  /\ pc[n] = "located"
        /\ ~Truthy(error)
        /\ log' = [log EXCEPT ![n] = Append(@, Action("setConfig", <<merged>>))]
        /\ store' = [store EXCEPT !.config = Committed(n, merged)]
        /\ pc' = [pc EXCEPT ![n] = "committed"]
        /\ UNCHANGED <<environment, cache, request, newLocation, fetches,
                       download, storageOps, loadResult, config, profileRead,
                       promise>>

(***************************************************************************)
(* The last then of _appNavigateToMandatoryLocation: setRoom is dispatched *)
(* and the promise of appNavigate is fulfilled with what dispatch returns. *)
(***************************************************************************)
\* The last then of the chain given a handler of the rejection as well.
dispatchSetRoom_afterError(n) ==
    LET room == newLocation[n].room
    IN  /\ pc[n] \in {"committed", "errored"}
        /\ log' = [log EXCEPT ![n] = Append(@, Action("setRoom", <<room>>))]
        /\ store' = [store EXCEPT !.room = Committed(n, room)]
        /\ promise' = [promise EXCEPT
                         ![n] = Fulfilled(Action("setRoom", <<room>>))]
        /\ pc' = [pc EXCEPT ![n] = "done"]
        /\ UNCHANGED <<environment, cache, request, newLocation, fetches,
                       download, storageOps, loadResult, config, profileRead>>

dispatchSetRoom(n) ==
    LET room == newLocation[n].room
    IN  /\ pc[n] = "committed"
        /\ log' = [log EXCEPT ![n] = Append(@, Action("setRoom", <<room>>))]
        /\ store' = [store EXCEPT !.room = Committed(n, room)]
        /\ promise' = [promise EXCEPT
                         ![n] = Fulfilled(Action("setRoom", <<room>>))]
        /\ pc' = [pc EXCEPT ![n] = "done"]
        /\ UNCHANGED <<environment, cache, request, newLocation, fetches,
                       download, storageOps, loadResult, config, profileRead>>

\* What the event loop runs of an attempt once appNavigate has returned: the
\* settlement of the download, with one of the given documents or with an
\* error, and the callbacks of the promise chain.
ContinueWith(n, documents) ==
    \/ \E downloaded \in Downloads(documents), quotaExceeded \in BOOLEAN :
          FetchFulfilled(n, downloaded, quotaExceeded)
    \/ \E error \in Errors : FetchRejected(n, error)
    \/ loadConfigSettled(n)
    \/ reportLoadConfigError(n)
    \/ commitConfig(n)
    \/ dispatchSetRoom(n)

Continue(n) == ContinueWith(n, FetchedDocs)

Step(n) ==
    \/ \E location \in NavigatedLocations : appNavigate(n, location)
    \/ Continue(n)

Next == \E n \in Attempts : Step(n)

Spec == Init /\ [][Next]_vars

\* Every download settles and every callback that is ready is run.
LiveSpec == Spec /\ \A n \in Attempts : WF_vars(Continue(n))

(***************************************************************************)
(* The resolution of the location alone: appNavigate is called with every  *)
(* parsed location of the bounded parts, or with none, in an app with any  *)
(* of the default URLs.                                                    *)
(***************************************************************************)
InitNormalize ==
    /\ Platform
    /\ app \in DefaultLocations
    /\ profile = UserProfile
    /\ Storage({NoItem})
    /\ NothingStarted

NextNormalize ==
    \E n \in Attempts, location \in AllLocations \cup {NoLocation} :
        appNavigate(n, location)

SpecNormalize == InitNormalize /\ [][NextNormalize]_vars

(***************************************************************************)
(* The merge alone: one navigation, with every document and every profile  *)
(* over the bounded property names.                                        *)
(***************************************************************************)
InitMerge ==
    /\ Platform
    /\ app = Location("https:", MeetAuthority, "", "", <<>>)
    /\ profile \in PlainDocs
    /\ Storage({NoItem})
    /\ NothingStarted

NextMerge ==
    \/ \E location \in NavigatedLocations : appNavigate(1, location)
    \/ ContinueWith(1, AllDocs)

SpecMerge == InitMerge /\ [][NextMerge]_vars

(***************************************************************************)
(* The overrides of the URL alone: one navigation to a deployment, with    *)
(* every set of overrides in the hash of the location and every profile    *)
(* over the bounded property names.                                        *)
(***************************************************************************)
OverrideLocations ==
    {Location("https:", MeetAuthority, "/", r, h) :
        r \in Rooms, h \in PlainDocs}

InitOverride ==
    /\ Platform
    /\ app = Location("https:", MeetAuthority, "", "", <<>>)
    /\ profile \in PlainDocs
    /\ Storage(StartItems)
    /\ NothingStarted

NextOverride ==
    \/ \E location \in OverrideLocations : appNavigate(1, location)
    \/ Continue(1)

SpecOverride == InitOverride /\ [][NextOverride]_vars

TypeOK ==
    /\ pc \in [Attempts ->
                {"idle", "fetching", "loaded", "located", "committed",
                 "done", "errored"}]
    /\ \A n \in Attempts : Len(fetches[n]) <= 1

(***************************************************************************)
(* Vocabulary of the properties.                                           *)
(***************************************************************************)
configWillLoad(location) == Action("configWillLoad", <<location>>)
setLocationURL(location) == Action("setLocationURL", <<location>>)
loadConfigError(error, location) ==
    Action("loadConfigError", <<error, location>>)

\* The actions of one creator an attempt has dispatched, in order.
Dispatches(n, creator) ==
    SelectSeq(log[n], LAMBDA a : a.creator = creator)

Dispatched(n, creator) == Dispatches(n, creator) # <<>>

\* The download of the attempt failed, and the item under its key was then:
FetchFailed(n) == download[n].status = "rejected"
FailedWithoutItem(n) == FetchFailed(n) /\ download[n].item = NoItem
FailedWithParsableItem(n) ==
    FetchFailed(n) /\ download[n].item.text \in {"json", "null"}
FailedWithCorruptItem(n) ==
    FetchFailed(n) /\ download[n].item = CorruptItem

\* C1: when the download rejects with E and localStorage holds no item under
\* the key of the deployment, _loadConfig rejects with E, setLocationURL is
\* dispatched with the location, then loadConfigError with exactly (E, that
\* location), then the promise of appNavigate rejects with E; neither
\* setConfig nor setRoom is dispatched by the attempt.
C1_ErrorWithoutCacheEntry ==
    \A n \in Attempts :
        FailedWithoutItem(n) =>
            LET E == download[n].value
                location == newLocation[n]
            IN  /\ loadResult[n] = Rejected(E)
                /\ pc[n] \in {"loaded", "located", "errored"}
                /\ pc[n] = "loaded" =>
                      /\ log[n] = <<configWillLoad(location)>>
                      /\ promise[n] = Pending
                /\ pc[n] = "located" =>
                      /\ log[n] = <<configWillLoad(location),
                                    setLocationURL(location)>>
                      /\ promise[n] = Pending
                      /\ ENABLED reportLoadConfigError(n)
                /\ pc[n] = "errored" =>
                      /\ log[n] = <<configWillLoad(location),
                                    setLocationURL(location),
                                    loadConfigError(E, location)>>
                      /\ promise[n] = Rejected(E)

C1_Witness ==
    \E n \in Attempts :
        /\ FailedWithoutItem(n)
        /\ pc[n] = "errored"
        /\ storageAvailable
        /\ promise[n] = Rejected(Err(2))

\* C2: when the download fails while localStorage holds an item under the
\* key of the deployment that JSON.parse accepts, _loadConfig resolves with
\* the value that item parses to, no error reaches the caller,
\* loadConfigError is not dispatched, and the attempt dispatches setConfig.
C2_FallbackToCache ==
    \A n \in Attempts :
        FailedWithParsableItem(n) =>
            LET item == download[n].item
            IN  /\ loadResult[n].status = "fulfilled"
                /\ item.text = "json" =>
                      /\ loadResult[n].value.type = "object"
                      /\ loadResult[n].value.props = item.props
                /\ item.text = "null" => loadResult[n].value = Null
                /\ promise[n].status # "rejected"
                /\ ~Dispatched(n, "loadConfigError")
                /\ pc[n] \in {"loaded", "located", "committed", "done"}
                /\ pc[n] = "located" => ENABLED commitConfig(n)
                /\ pc[n] \in {"committed", "done"} =>
                      Len(Dispatches(n, "setConfig")) = 1

C2_Witness ==
    \E n \in Attempts :
        /\ FailedWithParsableItem(n)
        /\ download[n].item.text = "json"
        /\ pc[n] = "done"
        /\ Dispatched(n, "setConfig")

\* C3: when the download fails with E while the item under the key of the
\* deployment is read and JSON.parse throws on it, the item is removed by
\* the handler of the failure, and the error that reaches the caller is E.
C3_CorruptItemRemoved ==
    /\ [](\A n \in Attempts :
            FailedWithCorruptItem(n) =>
                /\ loadResult[n] = Rejected(download[n].value)
                /\ pc[n] \in {"loaded", "located", "errored"}
                /\ pc[n] = "located" => ENABLED reportLoadConfigError(n)
                /\ pc[n] = "errored" =>
                      promise[n] = Rejected(download[n].value))
    /\ [][\A n \in Attempts :
            (~FetchFailed(n) /\ FailedWithCorruptItem(n)') =>
                cache'[key(newLocation[n])] = NoItem]_vars

C3_Witness ==
    \E n \in Attempts :
        /\ FailedWithCorruptItem(n)
        /\ pc[n] = "errored"
        /\ cache[key(newLocation[n])] = NoItem
        /\ promise[n] = Rejected(download[n].value)

\* C4: whenever an attempt dispatches setConfig (it ended without an error),
\* the configuration it dispatches is not undefined.
C4_CommittedConfigDefined ==
    \A n \in Attempts :
        \A i \in DOMAIN log[n] :
            log[n][i].creator = "setConfig" => log[n][i].args[1] # Undefined

\* The location of the attempt has no room and APP is undefined.
WithoutRoomOutsideApp(n) ==
    pc[n] # "idle" /\ newLocation[n].room = "" /\ ~appDefined

\* C5: an attempt whose location has no room, with APP undefined, never
\* calls loadConfig, makes no localStorage call and leaves localStorage as
\* it is, resolves _loadConfig with undefined, raises no error, and still
\* dispatches setLocationURL with its location.
C5_FetchSkipped ==
    /\ [](\A n \in Attempts :
            WithoutRoomOutsideApp(n) =>
                /\ fetches[n] = <<>>
                /\ download[n] = Pending
                /\ storageOps[n] = <<>>
                /\ loadResult[n] = Fulfilled(Undefined)
                /\ config[n] = Undefined
                /\ pc[n] \in {"loaded", "located", "committed", "done"}
                /\ promise[n].status # "rejected"
                /\ ~Dispatched(n, "loadConfigError")
                /\ pc[n] = "loaded" => ENABLED loadConfigSettled(n)
                /\ pc[n] # "loaded" =>
                      Dispatches(n, "setLocationURL")
                          = <<setLocationURL(newLocation[n])>>)
    /\ [][\A n \in Attempts :
            (WithoutRoomOutsideApp(n)' /\ pc'[n] # pc[n]) =>
                cache' = cache]_vars

C5_Witness ==
    \E n \in Attempts :
        /\ WithoutRoomOutsideApp(n)
        /\ pc[n] = "done"
        /\ store.locationURL = Committed(n, newLocation[n])

\* C6: in every attempt, whether the config was downloaded, taken from
\* localStorage or not obtained, setLocationURL is dispatched with the
\* location of the attempt at most once, exactly once by the time the
\* attempt ends, and before every loadConfigError, setConfig and setRoom of
\* the attempt; the store takes the location when it is dispatched.
C6_LocationCommittedFirst ==
    /\ [](\A n \in Attempts :
            /\ Len(Dispatches(n, "setLocationURL")) <= 1
            /\ pc[n] \in {"located", "committed", "done", "errored"} =>
                  Dispatches(n, "setLocationURL")
                      = <<setLocationURL(newLocation[n])>>
            /\ \A i \in DOMAIN log[n] :
                  log[n][i].creator
                        \in {"loadConfigError", "setConfig", "setRoom"} =>
                      \E j \in 1..(i - 1) :
                          log[n][j] = setLocationURL(newLocation[n]))
    /\ [][\A n \in Attempts :
            Dispatches(n, "setLocationURL")' # Dispatches(n, "setLocationURL")
                => store'.locationURL = Committed(n, newLocation[n])]_vars

C6_Witness ==
    \E n, m \in Attempts :
        /\ pc[n] = "errored" /\ Dispatched(n, "loadConfigError")
        /\ pc[m] = "done" /\ FetchFailed(m)
        /\ \A k \in {n, m} : Len(Dispatches(k, "setLocationURL")) = 1

\* C7: a navigation does not cancel one in flight: every attempt that was
\* started runs on to the end of its chain (setRoom dispatched, or the
\* error thrown) whatever other attempts are started meanwhile; so the
\* attempt started second may dispatch its location, config and room
\* before the attempt started first, whose values the store then keeps.
C7_NoCancellation ==
    \A n \in Attempts : (pc[n] # "idle") ~> (pc[n] \in {"done", "errored"})

C7_Witness ==
    /\ pc[1] = "done" /\ pc[2] = "done"
    /\ newLocation[1] # newLocation[2]
    /\ store.locationURL = Committed(1, newLocation[1])
    /\ store.config = Committed(1, log[1][3].args[1])
    /\ store.room = Committed(1, newLocation[1].room)
    /\ store.config.value # log[2][3].args[1]

\* The step in which the download of the attempt is fulfilled.
DownloadFulfilled(n) ==
    download[n].status = "pending" /\ download'[n].status = "fulfilled"

\* C8, as claimed: after every download fulfilled with a document D, the
\* item under the key of the deployment exists and parses to a value
\* deep-equal to D.
C8_RoundTripOnEverySuccess ==
    [][\A n \in Attempts :
        DownloadFulfilled(n) =>
            LET item == cache'[key(newLocation[n])]
            IN  /\ item.text = "json"
                /\ DeepEqual(JSONparse(item), download'[n].value)]_vars

\* C8, amended: after every download fulfilled with a document D that is
\* not the window.config object, and whose storing did not throw, the item
\* under the key of the deployment exists and parses to an object with
\* exactly the properties of D that are no functions, each with its value
\* in D; it is deep-equal to D when no property of D is a function.
C8_RoundTripWhenStored ==
    [][\A n \in Attempts :
        (/\ DownloadFulfilled(n)
         /\ ~(windowConfig.type = "object"
                /\ StrictEquals(windowConfig, download'[n].value))
         /\ \A i \in DOMAIN storageOps'[n] : ~storageOps'[n][i].threw) =>
            LET item == cache'[key(newLocation[n])]
                D == download'[n].value.props
            IN  /\ item.text = "json"
                /\ DOMAIN item.props
                      = {k \in DOMAIN D : D[k] # FunctionValue}
                /\ \A k \in DOMAIN item.props : item.props[k] = D[k]
                /\ (\A k \in DOMAIN D : D[k] # FunctionValue) =>
                      DeepEqual(JSONparse(item), download'[n].value)]_vars

C8_Witness ==
    \E n \in Attempts :
        /\ download[n].status = "fulfilled"
        /\ "getroom" \in DOMAIN download[n].value.props
        /\ storageOps[n] = <<StorageOp("setItem", key(newLocation[n]), FALSE)>>
        /\ cache[key(newLocation[n])]
              = JsonItem([startWithAudioMuted |-> "false"])

\* C9: for every config that is defined and every profile, the object
\* dispatched with setConfig has the properties of either and no other; a
\* property of the profile has the value of the profile, whether the config
\* has it or not, and a property of the config alone has its config value.
C9_MergeLaw ==
    [][\A n \in Attempts :
        (pc[n] = "located" /\ pc'[n] = "committed"
            /\ Truthy(Deref(config[n]))) =>
            LET c == Deref(config[n]).props
                p == profileRead[n]
                merged == log'[n][Len(log'[n])].args[1]
            IN  /\ log'[n][Len(log'[n])].creator = "setConfig"
                /\ merged.type = "object"
                /\ DOMAIN merged.props = DOMAIN c \cup DOMAIN p
                /\ \A k \in DOMAIN p : merged.props[k] = p[k]
                /\ \A k \in DOMAIN c \ DOMAIN p : merged.props[k] = c[k]]_vars

C9_Witness ==
    \E n \in Attempts :
        /\ pc[n] = "committed"
        /\ config[n].type = "object"
        /\ config[n].props = [startWithAudioMuted |-> "true",
                               getroom |-> FunctionValue]
        /\ profileRead[n] = [startWithAudioMuted |-> "false",
                              startWithVideoMuted |-> "true"]
        /\ store.config.value.props
              = [startWithAudioMuted |-> "false",
                 startWithVideoMuted |-> "true",
                 getroom |-> FunctionValue]

\* appNavigate was given a location without a protocol.
ProtocolAbsent(n) ==
    pc[n] # "idle" /\ request[n] # NoLocation /\ request[n].protocol = ""

\* C10, as claimed: the location resolved for a location given without a
\* protocol, with or without a host and whatever the default URL of the
\* app, has the protocol https:.
C10_AbsentProtocolIsHttps ==
    \A n \in Attempts :
        ProtocolAbsent(n) => newLocation[n].protocol = "https:"

\* C10, amended: the location resolved for a location given without a
\* protocol has the protocol https: when the location has a host; when it
\* has none, it has the protocol of the default URL of the app, and https:
\* when the default URL has no protocol either.
C10_AbsentProtocolDefaulted ==
    \A n \in Attempts :
        ProtocolAbsent(n) =>
            newLocation[n].protocol =
                IF request[n].host # "" \/ app.protocol = ""
                THEN "https:"
                ELSE app.protocol

C10_Witness ==
    \E n, m \in Attempts :
        /\ ProtocolAbsent(n) /\ request[n].host = "" /\ app.protocol = "http:"
        /\ newLocation[n].protocol = "http:"
        /\ ProtocolAbsent(m) /\ request[m].host # ""
        /\ newLocation[m].protocol = "https:"

\* The attempt called loadConfig.
FetchPerformed(n) == fetches[n] # <<>>

\* C11: for every resolved location config.js is downloaded for, the URL is
\* protocol//host, then the context root (/ when there is none), then
\* config.js, then ?room= and the room in lower case exactly when there is a
\* room; the protocol is that of the location in lower case when this is
\* http: or https:, and https: for every other scheme.
C11_FetchURL ==
    \A n \in Attempts :
        FetchPerformed(n) =>
            LET location == newLocation[n]
                protocol ==
                    IF location.protocol \in {"http:", "HTTP:"} THEN "http:"
                    ELSE "https:"
                root ==
                    IF location.contextRoot = "" THEN "/"
                    ELSE location.contextRoot
                query ==
                    IF location.room = "" THEN ""
                    ELSE IF location.room = "Test" THEN "?room=test"
                    ELSE "?room=other"
            IN  fetches[n]
                    = <<protocol \o "//" \o location.host \o root
                            \o "config.js" \o query>>

C11_Witness ==
    \E n, m \in Attempts :
        /\ request[n] # NoLocation /\ request[m] # NoLocation
        /\ request[n].protocol = "org.jitsi.meet:"
        /\ request[n].contextRoot = ""
        /\ fetches[n] = <<"https://meet.example.com/config.js?room=test">>
        /\ request[m].protocol = "HTTP:"
        /\ request[m].room = ""
        /\ fetches[m] = <<"http://beta.example.org:8443/ctx/config.js">>

\* The localStorage calls of an attempt that name a key.
KeyedOps(n) ==
    {i \in DOMAIN storageOps[n] :
        storageOps[n][i].op \in {"setItem", "getItem", "removeItem"}}

\* The deployment config.js is downloaded from for a location: the protocol
\* of the download, the host, and the context root (/ when there is none).
Deployment(location) ==
    <<IF location.protocol \in {"http:", "HTTP:"} THEN "http:" ELSE "https:",
      location.host,
      IF location.contextRoot = "" THEN "/" ELSE location.contextRoot>>

\* C12, as claimed: every localStorage call of _loadConfig (the write after
\* a download, the read after a failure, the removal of an item that does
\* not parse) uses the key config/ followed by protocol//host and the
\* context root.
C12_KeyHasPrefixConfig ==
    \A n \in Attempts :
        \A i \in KeyedOps(n) :
            LET d == Deployment(newLocation[n])
            IN  storageOps[n][i].key
                    = "config/" \o d[1] \o "//" \o d[2] \o d[3]

\* C12, amended: every localStorage call of _loadConfig (write, read and
\* removal alike) uses the key config.js/ followed by protocol//host and the
\* context root (/ when there is none), and two attempts for the same
\* deployment use the same key.
C12_KeyHasPrefixConfigJs ==
    /\ \A n \in Attempts :
          \A i \in KeyedOps(n) :
              LET d == Deployment(newLocation[n])
              IN  storageOps[n][i].key
                      = "config.js/" \o d[1] \o "//" \o d[2] \o d[3]
    /\ \A n, m \in Attempts :
          \A i \in KeyedOps(n), j \in KeyedOps(m) :
              Deployment(newLocation[n]) = Deployment(newLocation[m])
                  => storageOps[n][i].key = storageOps[m][j].key

C12_Witness ==
    \E n, m \in Attempts :
        /\ pc[n] # "idle" /\ pc[m] # "idle"
        /\ newLocation[n].protocol = "org.jitsi.meet:"
        /\ newLocation[m].protocol = "https:"
        /\ storageOps[n]
              = <<StorageOp("getItem", "config.js/https://meet.example.com/",
                            FALSE),
                  StorageOp("removeItem",
                            "config.js/https://meet.example.com/", FALSE)>>
        /\ storageOps[m]
              = <<StorageOp("setItem", "config.js/https://meet.example.com/",
                            FALSE)>>

\* The states of an attempt: PENDING, FETCHING, the download settled
\* (FETCHED, FETCHED_FROM_CACHE or FAILED), and the terminal states.
AttemptPending(n) == pc[n] = "idle"
AttemptFetching(n) == pc[n] = "fetching"
AttemptFailed(n) == loadResult[n].status = "rejected"
AttemptCommitted(n) == pc[n] = "done"
AttemptErrored(n) == pc[n] = "errored"
AttemptTerminal(n) == AttemptCommitted(n) \/ AttemptErrored(n)

\* The transitions of the chain of promises of an attempt.
ChainEdges ==
    {<<"idle", "fetching">>, <<"idle", "loaded">>, <<"fetching", "loaded">>,
     <<"loaded", "located">>, <<"located", "committed">>,
     <<"located", "errored">>, <<"committed", "done">>}

\* C13: every attempt that was started, its download and the promise of
\* setLocationURL settling, ends in exactly one of two states: COMMITTED
\* (setConfig dispatched, the promise of appNavigate fulfilled) or ERRORED
\* (loadConfigError dispatched, the promise rejected); no attempt dispatches
\* both setConfig and loadConfigError; ERRORED is reached only when
\* _loadConfig failed; the attempt moves along PENDING, FETCHING, settled,
\* terminal only, and nothing of an attempt changes once it is terminal.
C13_StateMachine ==
    /\ \A n \in Attempts : (~AttemptPending(n)) ~> AttemptTerminal(n)
    /\ [](\A n \in Attempts :
            /\ ~(Dispatched(n, "setConfig") /\ Dispatched(n, "loadConfigError"))
            /\ AttemptCommitted(n) =>
                  /\ Len(Dispatches(n, "setConfig")) = 1
                  /\ promise[n].status = "fulfilled"
                  /\ ~AttemptFailed(n)
            /\ Dispatched(n, "setConfig") => ~AttemptFailed(n)
            /\ AttemptErrored(n) =>
                  /\ Len(Dispatches(n, "loadConfigError")) = 1
                  /\ promise[n] = Rejected(loadResult[n].value)
                  /\ AttemptFailed(n)
                  /\ FetchFailed(n)
            /\ Dispatched(n, "loadConfigError") => AttemptFailed(n)
            /\ ~AttemptTerminal(n) => promise[n] = Pending)
    /\ [][\A n \in Attempts :
            /\ pc'[n] # pc[n] => <<pc[n], pc'[n]>> \in ChainEdges
            /\ AttemptTerminal(n) =>
                  /\ pc'[n] = pc[n]
                  /\ log'[n] = log[n]
                  /\ promise'[n] = promise[n]
                  /\ storageOps'[n] = storageOps[n]
                  /\ fetches'[n] = fetches[n]]_vars

C13_Witness ==
    \E n, m \in Attempts :
        /\ AttemptCommitted(n) /\ FetchFailed(n)
        /\ promise[n].status = "fulfilled"
        /\ AttemptErrored(m) /\ AttemptFailed(m)
        /\ promise[m].status = "rejected"

\* loadConfig was called by the attempt and has not settled.
FetchInFlight(n) == FetchPerformed(n) /\ download[n] = Pending

\* The step appends an action of the creator to the log of the attempt.
Dispatching(n, creator) ==
    Len(Dispatches(n, creator)') > Len(Dispatches(n, creator))

\* C14: in an attempt the download settles (with a document, with the
\* item of localStorage, or with an error) before anything is committed:
\* while loadConfig is pending the attempt has dispatched no setLocationURL,
\* setConfig or loadConfigError; loadConfig is called at most once by an
\* attempt; and setConfig and loadConfigError are dispatched by a callback
\* of the promise of setLocationURL, in a later step than the one that
\* dispatched setLocationURL.
C14_FetchBeforeCommit ==
    /\ [](\A n \in Attempts :
            /\ FetchInFlight(n) =>
                  /\ ~Dispatched(n, "setLocationURL")
                  /\ ~Dispatched(n, "setConfig")
                  /\ ~Dispatched(n, "loadConfigError")
            /\ Len(fetches[n]) <= 1)
    /\ [][\A n \in Attempts :
            /\ FetchPerformed(n) => fetches'[n] = fetches[n]
            /\ Dispatching(n, "setLocationURL") =>
                  /\ ~FetchInFlight(n)'
                  /\ ~Dispatching(n, "setConfig")
                  /\ ~Dispatching(n, "loadConfigError")
            /\ (Dispatching(n, "setConfig")
                    \/ Dispatching(n, "loadConfigError")) =>
                  /\ pc[n] = "located"
                  /\ log[n][Len(log[n])] = setLocationURL(newLocation[n])]_vars

C14_Witness ==
    \E n, m \in Attempts :
        /\ FetchInFlight(n)
        /\ log[n] = <<configWillLoad(newLocation[n])>>
        /\ pc[m] = "errored"
        /\ Len(fetches[m]) = 1
        /\ download[m].status = "rejected"
        /\ log[m][2] = setLocationURL(newLocation[m])
        /\ log[m][3].creator = "loadConfigError"

\* The step in which loadConfigSettled is called for the attempt, and the
\* step in which the attempt dispatches setConfig.
SettledStep(n) == pc[n] = "loaded" /\ pc'[n] = "located"
CommitStep(n) == pc[n] = "located" /\ pc'[n] = "committed"

\* _loadConfig gave the attempt a config, and no error.
ConfigObtained(n) ==
    loadResult[n].status = "fulfilled" /\ Truthy(loadResult[n].value)

\* C15: the overrides of the hash of the location are written into the
\* config exactly when _loadConfig gave a config and no error, be it the
\* downloaded one or the one from localStorage; with the download skipped,
\* or failed, nothing is overridden. They are written before the profile is
\* merged: in the config dispatched with setConfig a property has the value
\* of the profile if the profile has it, else that of the hash if the hash
\* has it, else that of the config loaded.
C15_OverridesBeforeMerge ==
    [][\A n \in Attempts :
        LET hash == newLocation[n].hashParams
            remote == loadResult[n].value.props
        IN  /\ (SettledStep(n) /\ ConfigObtained(n)) =>
                  /\ config'[n].type = "object"
                  /\ DOMAIN config'[n].props = DOMAIN remote \cup DOMAIN hash
                  /\ \A k \in DOMAIN hash : config'[n].props[k] = hash[k]
                  /\ \A k \in DOMAIN remote \ DOMAIN hash :
                        config'[n].props[k] = remote[k]
            /\ (SettledStep(n) /\ ~ConfigObtained(n)) =>
                  /\ ~Truthy(config'[n])
                  /\ config'[n] = settledConfig(loadResult[n])
                  /\ windowConfig' = windowConfig
            /\ (CommitStep(n) /\ ConfigObtained(n)) =>
                  LET merged == store'.config.value
                      p == profileRead[n]
                  IN  /\ Dispatching(n, "setConfig")
                      /\ merged.type = "object"
                      /\ DOMAIN merged.props
                            = DOMAIN p \cup DOMAIN hash \cup DOMAIN remote
                      /\ \A k \in DOMAIN merged.props :
                            merged.props[k] =
                                IF k \in DOMAIN p THEN p[k]
                                ELSE IF k \in DOMAIN hash THEN hash[k]
                                ELSE remote[k]]_vars

C15_Witness ==
    \E n \in Attempts :
        /\ pc[n] = "done"
        /\ FetchFailed(n)
        /\ ConfigObtained(n)
        /\ loadResult[n].value.props = [startWithVideoMuted |-> "true"]
        /\ newLocation[n].hashParams
              = [startWithAudioMuted |-> "true", startWithVideoMuted |-> "false"]
        /\ profileRead[n] = [startWithAudioMuted |-> "false"]
        /\ store.config.value.props
              = [startWithAudioMuted |-> "false", startWithVideoMuted |-> "false"]

\* The download of the attempt was fulfilled, and what its write did then.
FetchSucceeded(n) == download[n].status = "fulfilled"
WriteFailed(n) ==
    \E i \in DOMAIN storageOps[n] : storageOps[n][i].threw
WriteSkipped(n) == storageOps[n] = <<>>

\* C16: storing the downloaded config is optional. When the download is
\* fulfilled with D and the write throws (localStorage cannot be accessed,
\* or setItem throws), localStorage is left as it was; whether the write
\* throws or not, _loadConfig resolves with D, no error is dispatched, and
\* setConfig is dispatched with D under the overrides and the profile. No
\* write is attempted, and localStorage is left as it was, exactly when D is
\* the window.config object itself.
C16_BestEffortWrite ==
    /\ [][\A n \in Attempts :
            DownloadFulfilled(n) =>
                LET D == download'[n].value
                IN  /\ loadResult'[n] = Fulfilled(D)
                    /\ WriteFailed(n)' => cache' = cache
                    /\ WriteSkipped(n)' => cache' = cache
                    /\ WriteSkipped(n)' <=>
                          (windowConfig.type = "object"
                              /\ StrictEquals(windowConfig, D))]_vars
    /\ [](\A n \in Attempts :
            FetchSucceeded(n) =>
                LET D == download[n].value.props
                    hash == newLocation[n].hashParams
                IN  /\ loadResult[n] = Fulfilled(download[n].value)
                    /\ pc[n] \in {"loaded", "located", "committed", "done"}
                    /\ ~Dispatched(n, "loadConfigError")
                    /\ promise[n].status # "rejected"
                    /\ pc[n] = "located" => ENABLED commitConfig(n)
                    /\ pc[n] \in {"committed", "done"} =>
                          LET merged == Dispatches(n, "setConfig")[1].args[1]
                          IN  /\ merged.type = "object"
                              /\ \A k \in DOMAIN D :
                                    /\ k \in DOMAIN merged.props
                                    /\ merged.props[k] =
                                          IF k \in DOMAIN profileRead[n]
                                          THEN profileRead[n][k]
                                          ELSE IF k \in DOMAIN hash
                                          THEN hash[k]
                                          ELSE D[k])

C16_Witness ==
    \E n, m \in Attempts :
        /\ FetchSucceeded(n) /\ WriteFailed(n)
        /\ storageOps[n][1].op = "setItem"
        /\ cache[key(newLocation[n])] = CorruptItem
        /\ pc[n] = "done"
        /\ "getroom" \in DOMAIN Dispatches(n, "setConfig")[1].args[1].props
        /\ FetchSucceeded(m) /\ WriteSkipped(m)
        /\ pc[m] = "done"

\* The attempt stored the config it downloaded.
Cached(n) ==
    /\ FetchSucceeded(n)
    /\ ~WriteSkipped(n)
    /\ ~WriteFailed(n)

\* The step in which the download of the attempt is rejected.
DownloadRejected(n) ==
    download[n].status = "pending" /\ download'[n].status = "rejected"

\* The key under which the attempt stored the config it downloaded.
WrittenKey(n) == storageOps[n][1].key

\* Attempt n stored D for a deployment, the item is still there, and
\* attempt m is for another room of the same deployment.
SharesDeployment(n, m) ==
    /\ n # m
    /\ Cached(n)
    /\ pc[m] # "idle"
    /\ Deployment(newLocation[n]) = Deployment(newLocation[m])
    /\ newLocation[n].room # newLocation[m].room
    /\ cache[WrittenKey(n)] = JSONstringify(download[n].value)

\* Attempt n stored D for a deployment and attempt m is for another one.
OtherDeployment(n, m) ==
    /\ n # m
    /\ Cached(n)
    /\ pc[m] # "idle"
    /\ Deployment(newLocation[n]) # Deployment(newLocation[m])

\* C17, as claimed: when the download for room B of a deployment fails
\* after the download for room A of the same deployment was fulfilled with
\* D and stored, _loadConfig resolves for room B with a value deep-equal to
\* D.
C17_OtherRoomReceivesD ==
    [][\A n, m \in Attempts :
        (SharesDeployment(n, m) /\ DownloadRejected(m)) =>
            /\ loadResult'[m].status = "fulfilled"
            /\ DeepEqual(loadResult'[m].value, download[n].value)]_vars

\* C17, amended: the key does not depend on the room. When the download
\* for room B of a deployment fails after the download for room A of the
\* same deployment was fulfilled with D and stored, _loadConfig resolves
\* for room B with what the item stored for D parses to, that is an object
\* with the properties of D that are no functions, and the attempt
\* dispatches no error and commits; when the download for another
\* deployment fails, what _loadConfig resolves with, if anything, is parsed
\* from an item under another key than the one D was stored under.
C17_RoomIndependentKey ==
    /\ [][\A n, m \in Attempts :
            /\ (SharesDeployment(n, m) /\ DownloadRejected(m)) =>
                  LET D == download[n].value.props
                      received == loadResult'[m]
                  IN  /\ received.status = "fulfilled"
                      /\ received.value.type = "object"
                      /\ DOMAIN received.value.props
                            = {k \in DOMAIN D : D[k] # FunctionValue}
                      /\ \A k \in DOMAIN received.value.props :
                            received.value.props[k] = D[k]
                      /\ download'[m].item = JSONstringify(download[n].value)
            /\ (OtherDeployment(n, m) /\ DownloadRejected(m)) =>
                  LET others == DOMAIN cache \ {WrittenKey(n)}
                  IN  loadResult'[m].status = "fulfilled" =>
                          \E k \in others :
                              /\ cache[k].text \in {"json", "null"}
                              /\ loadResult'[m].value = JSONparse(cache[k])
                              /\ download'[m].item = cache[k]]_vars
    /\ [](\A n, m \in Attempts :
            (/\ n # m /\ Cached(n) /\ FetchFailed(m)
             /\ Deployment(newLocation[n]) = Deployment(newLocation[m])
             /\ newLocation[n].room # newLocation[m].room
             /\ download[m].item = JSONstringify(download[n].value)) =>
                /\ pc[m] \in {"loaded", "located", "committed", "done"}
                /\ ~Dispatched(m, "loadConfigError")
                /\ promise[m].status # "rejected"
                /\ pc[m] = "located" => ENABLED commitConfig(m))

C17_Witness ==
    \E n, m \in Attempts :
        /\ n # m /\ Cached(n) /\ FetchFailed(m)
        /\ newLocation[n].room = "Test" /\ newLocation[m].room = "Other"
        /\ "getroom" \in DOMAIN download[n].value.props
        /\ download[m].item = JSONstringify(download[n].value)
        /\ loadResult[m]
              = Fulfilled(Obj("parsed", [startWithAudioMuted |-> "false"]))
        /\ pc[m] = "done"
        /\ store.config.by = m

\* The key of the deployment of a location.
OwnKey(location) ==
    LET d == Deployment(location)
    IN  "config.js/" \o d[1] \o "//" \o d[2] \o d[3]

\* The localStorage calls of one kind an attempt made.
OpsOf(n, op) == {i \in DOMAIN storageOps[n] : storageOps[n][i].op = op}

\* C18: localStorage across an attempt. An attempt reads localStorage only
\* once its download has failed; an attempt whose download failed writes no
\* item and removes at most the item under the key of its own deployment,
\* and only an item it read and could not parse; an attempt whose download
\* was fulfilled reads and removes nothing; and a step of an attempt leaves
\* the items under every key but that of its own deployment as they were.
C18_CacheFrame ==
    /\ [](\A n \in Attempts :
            /\ (OpsOf(n, "getItem") # {} \/ OpsOf(n, "removeItem") # {})
                    => FetchFailed(n)
            /\ download[n] = Pending => storageOps[n] = <<>>
            /\ FetchFailed(n) =>
                  /\ OpsOf(n, "setItem") = {}
                  /\ Cardinality(OpsOf(n, "getItem")) <= 1
                  /\ Cardinality(OpsOf(n, "removeItem")) <= 1
                  /\ \A i \in OpsOf(n, "removeItem") :
                        /\ storageOps[n][i].key = OwnKey(newLocation[n])
                        /\ ItemTruthy(download[n].item)
                        /\ JSONparseThrows(download[n].item)
                        /\ \E j \in OpsOf(n, "getItem") : j < i
            /\ FetchSucceeded(n) =>
                  /\ OpsOf(n, "getItem") = {}
                  /\ OpsOf(n, "removeItem") = {}
                  /\ \A i \in OpsOf(n, "setItem") :
                        storageOps[n][i].key = OwnKey(newLocation[n]))
    /\ [][\A k \in DOMAIN cache :
            cache'[k] # cache[k] =>
                \E n \in Attempts :
                    /\ k = OwnKey(newLocation[n])
                    /\ DownloadRejected(n) \/ DownloadFulfilled(n)
                    /\ DownloadRejected(n) =>
                          /\ cache'[k] = NoItem
                          /\ ItemTruthy(cache[k])
                          /\ JSONparseThrows(cache[k])
                    /\ DownloadFulfilled(n) =>
                          cache'[k] = JSONstringify(download'[n].value)]_vars

C18_Witness ==
    \E n, m \in Attempts :
        /\ Cached(m)
        /\ OwnKey(newLocation[m]) # MeetKey
        /\ cache[OwnKey(newLocation[m])] = JSONstringify(download[m].value)
        /\ FailedWithCorruptItem(n)
        /\ OwnKey(newLocation[n]) = MeetKey
        /\ storageOps[n][2] = StorageOp("removeItem", MeetKey, FALSE)
        /\ cache[MeetKey] = NoItem

setRoom(room) == Action("setRoom", <<room>>)

\* C19: an attempt dispatches setRoom at most once, with the room of its
\* location, in a later step than its setConfig and in the very step that
\* fulfils its promise; an attempt that dispatched loadConfigError never
\* dispatches setRoom. An attempt dispatches configWillLoad exactly once,
\* with its location, as its first action and in the step in which
\* _loadConfig is called, whether the download is then started or skipped.
C19_RoomLastWillLoadFirst ==
    /\ [](\A n \in Attempts :
            /\ Len(Dispatches(n, "setRoom")) <= 1
            /\ Dispatched(n, "setRoom") =>
                  Dispatches(n, "setRoom") = <<setRoom(newLocation[n].room)>>
            /\ \A i \in DOMAIN log[n] :
                  log[n][i].creator = "setRoom" =>
                      \E j \in 1..(i - 1) : log[n][j].creator = "setConfig"
            /\ ~(Dispatched(n, "setRoom") /\ Dispatched(n, "loadConfigError"))
            /\ AttemptErrored(n) => ~Dispatched(n, "setRoom")
            /\ AttemptCommitted(n) <=> Dispatched(n, "setRoom")
            /\ AttemptPending(n) => log[n] = <<>>
            /\ ~AttemptPending(n) =>
                  /\ Dispatches(n, "configWillLoad")
                        = <<configWillLoad(newLocation[n])>>
                  /\ log[n][1] = configWillLoad(newLocation[n])
            /\ (FetchPerformed(n) \/ loadResult[n] # Pending) =>
                  Dispatched(n, "configWillLoad"))
    /\ [][\A n \in Attempts :
            /\ Dispatching(n, "setRoom") =>
                  /\ pc[n] = "committed"
                  /\ ~Dispatching(n, "setConfig")
            /\ Dispatching(n, "configWillLoad") =>
                  /\ AttemptPending(n)
                  /\ ~FetchPerformed(n)
                  /\ pc'[n] \in {"fetching", "loaded"}
                  /\ pc'[n] = "loaded" <=> ~FetchPerformed(n)']_vars

C19_Witness ==
    \E n, m \in Attempts :
        /\ AttemptCommitted(n)
        /\ ~FetchPerformed(n)
        /\ log[n][1] = configWillLoad(newLocation[n])
        /\ log[n][4] = setRoom("")
        /\ AttemptErrored(m)
        /\ Dispatches(m, "configWillLoad") = <<configWillLoad(newLocation[m])>>
        /\ newLocation[m].room = "Test"
        /\ store.room = Committed(n, "")

====
